---- MODULE Spec2Model ----
(***************************************************************************)
(* Order / payment lifecycle of the Telegram storefront bot:               *)
(*   bot.py            MoneroBot handlers, RateLimiter, expire_old_orders  *)
(*   monero_handler.py MoneroHandler.check_payment,                        *)
(*                     verify_payment_complete                             *)
(*   database.py       the persisted tables                                *)
(*   config.py         CONFIRMATIONS_REQUIRED, PAYMENT_TIMEOUT             *)
(*                                                                         *)
(* Amounts are integers in units of 0.0001 XMR, times are seconds.         *)
(* A handler that awaits a reply and changes state afterwards is split at  *)
(* that await: its head is one action, the statements after the await are  *)
(* the tail action, and `suspended` counts the tails still to run.         *)
(* The message a handler sends is given by its <handler>_reply operator.   *)
(***************************************************************************)
EXTENDS Integers, Sequences, FiniteSets, Bags, TLC

\* ------------------------------------------------------------------------
\* Program constants
\* ------------------------------------------------------------------------
\* timedelta(minutes=30) of Order.expires_at, in seconds
ORDER_LIFETIME == 30 * 60
CONFIRMATIONS_REQUIRED == 10
\* config.PAYMENT_TIMEOUT, in seconds
PAYMENT_TIMEOUT == 1800
\* age in seconds after which get_user_state resets a user's state
STALE_AFTER == 3600
\* RateLimiter(max_calls=10, period=60)
max_calls == 10
period == 60

\* ------------------------------------------------------------------------
\* Bounds of the model
\* ------------------------------------------------------------------------
\* steps of TickStep seconds the clock may be ahead of time 0
MaxTicks == 2
\* orders of the payment lifecycle
MaxOrders == 2
\* rows the payments table may hold
MaxPayments == 2
\* units of one product in a cart
MaxQty == 2
\* handlers of one user that may be suspended at an await at once
MaxSuspended == 1
\* steps of TickStep seconds a dialogue may be left idle
MaxIdleTicks == 3

\* steps of GateStep seconds the clock of the rate limiter may take
MaxGateTicks == 2
\* calls of the second user the rate limiter may record
MaxOtherCalls == 1

\* transactions the wallet may hold
MaxTxs == 1

\* fields of one dialogue that may hold another value than TxtLong
MaxOddFields == 1

\* ids the orders created by the checkout dialogue may take
OrderSlots == {1}

TickStep == ORDER_LIFETIME
MaxTime == MaxTicks * TickStep

Users == {1, 2}
ActiveUsers == {1}
Products == {1, 2}
UnknownProduct == Cardinality(Products) + 1
Prices == {35, 70}
Repriced == {1}
SeedPrice == [p \in Products |-> IF p = 1 THEN 35 ELSE 70]

NULL == 0 - 1
None == <<"NULL">>

\* Text values a user may type; a text is a sequence of characters.
TxtLong == <<"a", "b", "c", "d", "e">>
TxtPad == <<" ", "a", " ">>
Texts == {TxtLong, TxtPad}

Letters == {"a", "b", "c", "d", "e", "n", "o", "N"}
Digits == {"1", "2"}
Whitespace == {" "}

OracleDown == "down"
OracleUp == "up"
OracleStates == {OracleUp, OracleDown}
Faults == {"none", "db_error", "send_error"}

\* ------------------------------------------------------------------------
\* State
\* ------------------------------------------------------------------------
VARIABLES
    now,                \* wall clock (time.time(), datetime.utcnow())
    users,              \* telegram ids that have a User row
    price,              \* Product.price_xmr of every product
    carts,              \* user id -> set of CartItem rows, for users with a Cart
    orders,             \* the orders table; the id of an order is its index
    order_items,        \* the order_items table
    shipping_addresses, \* the shipping_addresses table; id = index
    payments,           \* the payments table
    user_states,        \* MoneroBot.user_states
    _checkout_lock,      \* MoneroBot.__checkout_lock
    suspended,          \* handlers suspended at an await before their tail
    calls,              \* rate_limiter.calls: user id -> timestamps it holds
    accepted,           \* history: user id -> every timestamp is_allowed recorded
    wallet,             \* what the wallet RPC holds and which of its methods fail
    payment_info        \* the value MoneroHandler.check_payment returned last

dbVars == <<users, carts, orders, order_items, shipping_addresses, payments>>
orderVars == <<orders, order_items, shipping_addresses, payments>>
dlgVars == <<user_states, _checkout_lock, suspended>>
limiterVars == <<calls, accepted>>
walletVars == <<wallet, payment_info>>
vars == <<now, price, dbVars, dlgVars, limiterVars, walletVars>>

\* ------------------------------------------------------------------------
\* Strings
\* ------------------------------------------------------------------------
RECURSIVE LStrip(_)
LStrip(s) ==
    IF s # <<>> /\ Head(s) \in Whitespace THEN LStrip(Tail(s)) ELSE s

RECURSIVE RStrip(_)
RStrip(s) ==
    IF s # <<>> /\ s[Len(s)] \in Whitespace
    THEN RStrip(SubSeq(s, 1, Len(s) - 1))
    ELSE s

Strip(s) == RStrip(LStrip(s))

LowerChar(c) == IF c = "N" THEN "n" ELSE c
Lower(s) == [i \in 1..Len(s) |-> LowerChar(s[i])]

Remove(s, c) == SelectSeq(s, LAMBDA x : x # c)

IsAlnum(s) == s # <<>> /\ \A i \in 1..Len(s) : s[i] \in Letters \cup Digits

\* ------------------------------------------------------------------------
\* Dictionaries (user state) and rows
\* ------------------------------------------------------------------------
Has(d, k) == k \in DOMAIN d
Get(d, k) == IF Has(d, k) THEN d[k] ELSE FALSE
Put(d, k, v) == [x \in DOMAIN d \cup {k} |-> IF x = k THEN v ELSE d[x]]
Without(f, k) == [x \in DOMAIN f \ {k} |-> f[x]]

FreshState(t) == [x \in {"created_at"} |-> t]

get_user_state(us, u, t) ==
    IF u \notin DOMAIN us
    THEN Put(us, u, FreshState(t))
    ELSE IF t - us[u]["created_at"] > STALE_AFTER
         THEN [us EXCEPT ![u] = FreshState(t)]
         ELSE us

clear_user_state(us, u) == Without(us, u)

InCheckoutFlow(us, u) == u \in DOMAIN us /\ Get(us[u], "checkout_flow") = TRUE

RECURSIVE SumRows(_, _)
SumRows(rows, pr) ==
    IF rows = {} THEN 0
    ELSE LET r == CHOOSE x \in rows : TRUE
         IN  pr[r.product_id] * r.quantity + SumRows(rows \ {r}, pr)

\* mutant: the total adds each line's unit price once, whatever its quantity
cart_total_IgnoresQuantity(items, pr) ==
    SumRows({[product_id |-> r.product_id, quantity |-> 1] : r \in items}, pr)

\* sum(item.product.price_xmr * item.quantity for item in cart.cart_items)
cart_total(items, pr) == SumRows(items, pr)

HasCartItems(u) == u \in users /\ u \in DOMAIN carts /\ carts[u] # {}

OrderIds == 1..Len(orders)
\* payments is a bag of Payment rows: equal rows are counted, not merged
PaymentRows(o) == {r \in BagToSet(payments) : r.order_id = o}

RECURSIVE CountRows(_)
CountRows(rows) ==
    IF rows = {} THEN 0
    ELSE LET r == CHOOSE x \in rows : TRUE
         IN  CopiesIn(r, payments) + CountRows(rows \ {r})

NumPayments(o) == CountRows(PaymentRows(o))
ItemsOf(o) == {r \in order_items : r.order_id = o}

\* ------------------------------------------------------------------------
\* The wallet RPC as MoneroHandler.check_payment sees it.  Amounts of the
\* wallet are in atomic units (1 XMR = 10^12), as the RPC reports them.
\* ------------------------------------------------------------------------
\* Decimal('0.000001') XMR in atomic units
EPSILON == 10 ^ 6
\* the order's total_amount_xmr (0.001 XMR) in atomic units
OrderedAmount == 1000 * EPSILON
\* the height the wallet reports, and the block of every mined transaction
WalletHeight == CONFIRMATIONS_REQUIRED + 1
MinedAt == 1

RpcMethods == {"get_height", "get_payments", "get_transfers"}
\* 1 is the payment id of the order, 2 the one of somebody else's payment
PaymentIds == {1, 2}
TxAmounts == {OrderedAmount - EPSILON - 1, OrderedAmount - EPSILON, OrderedAmount}

EmptyWallet == [down |-> {}, payments |-> <<>>, transfers |-> <<>>]
\* payment_info holds the returned values, none before the first call
Unchecked == <<>>

\* ------------------------------------------------------------------------
\* Initial state: seeded products, nothing else
\* ------------------------------------------------------------------------
Init ==
    /\ now = 0
    /\ users = {}
    /\ price = SeedPrice
    /\ carts = <<>>
    /\ orders = <<>>
    /\ order_items = {}
    /\ shipping_addresses = <<>>
    /\ payments = EmptyBag
    /\ user_states = <<>>
    /\ _checkout_lock = {}
    /\ suspended = [u \in Users |-> [create |-> 0, start |-> 0]]
    /\ calls = [u \in Users |-> <<>>]
    /\ accepted = [u \in Users |-> <<>>]
    /\ wallet = EmptyWallet
    /\ payment_info = Unchecked

\* ------------------------------------------------------------------------
\* Commands and buttons outside the checkout dialogue
\* ------------------------------------------------------------------------
\* /start
start(u) ==
    /\ users' = users \cup {u}
    /\ user_states' = clear_user_state(user_states, u)
    /\ _checkout_lock' = _checkout_lock \ {u}
    /\ UNCHANGED <<now, price, carts, orderVars, suspended>>

\* /products
show_products(u) ==
    /\ user_states' = clear_user_state(user_states, u)
    /\ UNCHANGED <<now, price, dbVars, _checkout_lock, suspended>>

\* /cart and button view_cart
show_cart(u) ==
    /\ user_states' = clear_user_state(user_states, u)
    /\ UNCHANGED <<now, price, dbVars, _checkout_lock, suspended>>

show_cart_reply(u) ==
    IF HasCartItems(u)
    THEN [msg |-> "cart", total |-> cart_total(carts[u], price)]
    ELSE [msg |-> "cart_empty", total |-> 0]

\* /clear_cart and button clear_cart
clear_cart(u) ==
    /\ carts' = IF u \in users /\ u \in DOMAIN carts THEN Without(carts, u) ELSE carts
    /\ UNCHANGED <<now, price, users, orderVars, dlgVars>>

\* /orders
show_orders(u) ==
    /\ user_states' = clear_user_state(user_states, u)
    /\ UNCHANGED <<now, price, dbVars, _checkout_lock, suspended>>

\* mutant: /cancel also deletes the user's cart
cancel_operation_DropsCart(u) ==
    /\ user_states' = clear_user_state(user_states, u)
    /\ _checkout_lock' = _checkout_lock \ {u}
    /\ carts' = Without(carts, u)
    /\ UNCHANGED <<now, price, users, orderVars, suspended>>

\* /cancel
cancel_operation(u) ==
    /\ user_states' = clear_user_state(user_states, u)
    /\ _checkout_lock' = _checkout_lock \ {u}
    /\ UNCHANGED <<now, price, dbVars, suspended>>

\* /debug_state
debug_state(u) ==
    /\ user_states' = get_user_state(user_states, u, now)
    /\ UNCHANGED <<now, price, dbVars, _checkout_lock, suspended>>

CartOf(u) == IF u \in DOMAIN carts THEN carts[u] ELSE {}

\* Units of product p in a set of CartItem rows, over all its lines of p.
UnitsOf(items, p) ==
    SumRows({r \in items : r.product_id = p}, [x \in Products |-> 1])

\* mutant: an add of a product already in the cart inserts a second line
\* next to the old one
AddItem_SecondLine(items, p) ==
    items \cup {[product_id |-> p, quantity |-> UnitsOf(items, p) + 1]}

\* mutant: a product new to the cart gets a line of no units
AddItem_EmptyLine(items, p) ==
    IF \E r \in items : r.product_id = p
    THEN {IF r.product_id = p THEN [r EXCEPT !.quantity = @ + 1] ELSE r : r \in items}
    ELSE items \cup {[product_id |-> p, quantity |-> 0]}

\* The CartItem rows after one more unit of product p is added.
AddItem(items, p) ==
    IF \E r \in items : r.product_id = p
    THEN {IF r.product_id = p THEN [r EXCEPT !.quantity = @ + 1] ELSE r : r \in items}
    ELSE items \cup {[product_id |-> p, quantity |-> 1]}

_add_to_cart_reply(u, p) ==
    IF p \notin Products THEN "product_not_found"
    ELSE IF u \notin users THEN "unhandled_error"
    ELSE "added"

\* button add_to_cart_<p>
_add_to_cart(u, p) ==
    /\ \A r \in CartOf(u) : r.product_id = p => r.quantity < MaxQty
    /\ carts' = IF _add_to_cart_reply(u, p) = "added"
                THEN Put(carts, u, AddItem(CartOf(u), p))
                ELSE carts
    /\ UNCHANGED <<now, price, users, orderVars, dlgVars>>

\* mutant: the order views read the product's live price
order_item_price_Live(item, pr) == pr[item.product_id]

\* The price the order views read from an OrderItem row (item.price_xmr).
order_item_price(item, pr) == item.price_xmr

\* What _show_order_details reports about the money of order o.
OrderView(o) ==
    [total |-> orders[o].total_amount_xmr,
     lines |-> {[product_id |-> r.product_id,
                 quantity |-> r.quantity,
                 price_xmr |-> order_item_price(r, price)] : r \in ItemsOf(o)}]

\* An operator changes a product's price in the products table.
SetPrice(p, v) ==
    /\ price[p] # v
    /\ price' = [price EXCEPT ![p] = v]
    /\ UNCHANGED <<now, dbVars, dlgVars>>

\* Time passes.
Tick ==
    /\ now + TickStep <= MaxTime
    /\ now' = now + TickStep
    /\ UNCHANGED <<price, dbVars, dlgVars>>

\* ------------------------------------------------------------------------
\* Checkout dialogue
\* ------------------------------------------------------------------------
Steps == <<"full_name", "street_address", "apt_number", "city", "state", "zip_code">>
StepNames == {Steps[i] : i \in 1..Len(Steps)}

\* mutant: the optional field is skipped
next_step_SkipsApt(step) ==
    CASE step = "full_name" -> "street_address"
      [] step = "street_address" -> "city"
      [] step = "apt_number" -> "city"
      [] step = "city" -> "state"
      [] step = "state" -> "zip_code"
      [] step = "zip_code" -> "complete"

next_step(step) ==
    CASE step = "full_name" -> "street_address"
      [] step = "street_address" -> "apt_number"
      [] step = "apt_number" -> "city"
      [] step = "city" -> "state"
      [] step = "state" -> "zip_code"
      [] step = "zip_code" -> "complete"

\* mutant: every value is accepted
_validate_input_AcceptsAll(step, value) == TRUE

\* mutant: the postal code is tested for its length only
_validate_input_ZipAnyChars(step, value) ==
    LET v == Strip(value) IN
    IF step = "full_name" /\ Len(v) < 3 THEN FALSE
    ELSE IF step = "street_address" /\ Len(v) < 5 THEN FALSE
    ELSE IF step = "city" /\ Len(v) < 2 THEN FALSE
    ELSE IF step = "state" /\ Len(v) < 2 THEN FALSE
    ELSE IF step = "zip_code" THEN Len(v) >= 3
    ELSE TRUE

\* TRUE iff _validate_input(step, value) returns (True, "")
_validate_input(step, value) ==
    LET v == Strip(value) IN
    IF step = "full_name" /\ Len(v) < 3 THEN FALSE
    ELSE IF step = "street_address" /\ Len(v) < 5 THEN FALSE
    ELSE IF step = "city" /\ Len(v) < 2 THEN FALSE
    ELSE IF step = "state" /\ Len(v) < 2 THEN FALSE
    ELSE IF step = "zip_code"
    THEN IF Len(v) < 3 THEN FALSE
         ELSE IsAlnum(Remove(Remove(v, " "), "-"))
    ELSE TRUE

Suspend(u, kind) ==
    /\ suspended[u].create + suspended[u].start < MaxSuspended
    /\ suspended' = [suspended EXCEPT ![u][kind] = @ + 1]

\* button start_checkout
_start_checkout(u) ==
    /\ IF u \in _checkout_lock
       THEN UNCHANGED dlgVars
       ELSE IF ~HasCartItems(u)
       THEN \* the lock is dropped only after the awaited answer
            /\ _checkout_lock' = _checkout_lock \cup {u}
            /\ Suspend(u, "start")
            /\ UNCHANGED user_states
       ELSE /\ _checkout_lock' = _checkout_lock \cup {u}
            /\ LET us == get_user_state(user_states, u, now)
               IN  user_states' = [us EXCEPT ![u] =
                       Put(Put(@, "checkout_flow", TRUE), "current_step", "full_name")]
            /\ UNCHANGED suspended
    /\ UNCHANGED <<now, price, dbVars>>

\* _start_checkout after `await query.answer("Your cart is empty")`
_start_checkout_tail(u) ==
    /\ suspended[u].start > 0
    /\ suspended' = [suspended EXCEPT ![u].start = @ - 1]
    /\ _checkout_lock' = _checkout_lock \ {u}
    /\ UNCHANGED <<now, price, dbVars, user_states>>

\* mutant: the statements after the last reply clear the state but keep the lock
_create_order_tail_KeepsLock(u) ==
    /\ suspended[u].create > 0
    /\ suspended' = [suspended EXCEPT ![u].create = @ - 1]
    /\ user_states' = clear_user_state(user_states, u)
    /\ UNCHANGED <<now, price, dbVars, _checkout_lock>>

\* mutant: the statements after the last reply release the lock but keep the state
_create_order_tail_KeepsState(u) ==
    /\ suspended[u].create > 0
    /\ suspended' = [suspended EXCEPT ![u].create = @ - 1]
    /\ _checkout_lock' = _checkout_lock \ {u}
    /\ UNCHANGED <<now, price, dbVars, user_states>>

\* mutant: the closing statements of _create_order_from_cart empty the whole
\* guard set and the whole state dictionary
_create_order_tail_ClearsAll(u) ==
    /\ suspended[u].create > 0
    /\ suspended' = [suspended EXCEPT ![u].create = @ - 1]
    /\ user_states' = <<>>
    /\ _checkout_lock' = {}
    /\ UNCHANGED <<now, price, dbVars>>

\* clear_user_state + _checkout_lock.discard after the awaited reply
\* (_create_order_from_cart, and the unknown-step branch of _collect_shipping_info)
_create_order_tail(u) ==
    /\ suspended[u].create > 0
    /\ suspended' = [suspended EXCEPT ![u].create = @ - 1]
    /\ user_states' = clear_user_state(user_states, u)
    /\ _checkout_lock' = _checkout_lock \ {u}
    /\ UNCHANGED <<now, price, dbVars>>

\* ------------------------------------------------------------------------
\* Order creation
\* ------------------------------------------------------------------------
\* mutant: the address takes its city from the state field
NewShippingAddress_CityFromState(st) ==
    [full_name |-> st["full_name"],
     street_address |-> st["street_address"],
     apt_number |-> IF Lower(st["apt_number"]) # <<"n", "o", "n", "e">>
                    THEN st["apt_number"] ELSE None,
     city |-> st["state"],
     state |-> st["state"],
     zip_code |-> st["zip_code"]]

\* ShippingAddress(...) built from the collected fields
NewShippingAddress(st) ==
    [full_name |-> st["full_name"],
     street_address |-> st["street_address"],
     apt_number |-> IF Lower(st["apt_number"]) # <<"n", "o", "n", "e">>
                    THEN st["apt_number"] ELSE None,
     city |-> st["city"],
     state |-> st["state"],
     zip_code |-> st["zip_code"]]

\* mutant: the order expires at the moment it is created
NewOrder_ExpiresAtOnce(o, u, addr, total, t) ==
    [user_id |-> u,
     shipping_address_id |-> addr,
     total_amount_xmr |-> total,
     payment_address |-> o,
     payment_id |-> o,
     status |-> "pending",
     expires_at |-> t,
     confirmed_at |-> NULL]

\* Order(...) with id o for user u, created at time t; the payment id is fresh
NewOrder(o, u, addr, total, t) ==
    [user_id |-> u,
     shipping_address_id |-> addr,
     total_amount_xmr |-> total,
     payment_address |-> o,
     payment_id |-> o,
     status |-> "pending",
     expires_at |-> t + ORDER_LIFETIME,
     confirmed_at |-> NULL]

\* OrderItem(...) for every cart item, with the product's price of this moment
NewOrderItems(o, items, pr) ==
    {[order_id |-> o,
      product_id |-> r.product_id,
      quantity |-> r.quantity,
      price_xmr |-> pr[r.product_id]] : r \in items}

\* mutant: the cart is not deleted with the order
PersistOrder_KeepsCart(u, st) ==
    /\ orders' = Append(orders, NewOrder(Len(orders) + 1, u, Len(shipping_addresses) + 1,
                                         cart_total(carts[u], price), now))
    /\ order_items' = order_items \cup NewOrderItems(Len(orders) + 1, carts[u], price)
    /\ UNCHANGED carts

\* The rows _create_order_from_cart adds after the oracle has answered:
\* the Order, its OrderItems, and the deletion of the cart.
PersistOrder(u, st) ==
    /\ orders' = Append(orders, NewOrder(Len(orders) + 1, u, Len(shipping_addresses) + 1,
                                         cart_total(carts[u], price), now))
    /\ order_items' = order_items \cup NewOrderItems(Len(orders) + 1, carts[u], price)
    /\ carts' = Without(carts, u)

\* mutant: closing the session keeps what was flushed
AfterClose_KeepsFlushed(committed, staged, table) == staged

\* `with Session() as session`: a table as the session leaves it when it is
\* closed; rows that were flushed but not committed are rolled back.
AfterClose(committed, staged, table) == IF committed THEN staged ELSE table

\* TRUE iff the session adds and flushes the ShippingAddress
Flushes(u, us, fault) ==
    /\ HasCartItems(u)
    /\ StepNames \subseteq DOMAIN us[u]
    /\ fault # "db_error"

\* TRUE iff the session reaches session.commit()
Commits(u, us, pd, fault) == Flushes(u, us, fault) /\ pd # OracleDown

\* _create_order_from_cart up to the awaited reply
_create_order_from_cart(u, us, pd, fault) ==
    /\ Suspend(u, "create")
    /\ user_states' = get_user_state(us, u, now)
    /\ UNCHANGED <<now, price, users, payments, _checkout_lock>>
    /\ IF Flushes(u, us, fault)
       THEN /\ shipping_addresses' =
                   AfterClose(Commits(u, us, pd, fault),
                              Append(shipping_addresses, NewShippingAddress(us[u])),
                              shipping_addresses)
            /\ IF Commits(u, us, pd, fault)
               THEN /\ Len(orders) + 1 \in OrderSlots
                    /\ PersistOrder(u, us[u])
               ELSE UNCHANGED <<carts, orders, order_items>>
       ELSE UNCHANGED <<carts, orders, order_items, shipping_addresses>>

\* _collect_shipping_info
_collect_shipping_info(u, text, pd, fault) ==
    LET us1 == get_user_state(user_states, u, now)
        st == us1[u]
        step == IF Has(st, "current_step") THEN st["current_step"] ELSE "missing"
        v == Strip(text)
    IN  IF ~InCheckoutFlow(us1, u)
        THEN /\ user_states' = us1
             /\ UNCHANGED <<now, price, dbVars, _checkout_lock, suspended>>
        ELSE IF step \notin StepNames
        THEN /\ Suspend(u, "create")
             /\ user_states' = us1
             /\ UNCHANGED <<now, price, dbVars, _checkout_lock>>
        ELSE IF ~_validate_input(step, v)
        THEN /\ user_states' = us1
             /\ UNCHANGED <<now, price, dbVars, _checkout_lock, suspended>>
        ELSE IF next_step(step) = "complete"
        THEN _create_order_from_cart(u, [us1 EXCEPT ![u] = Put(st, step, v)], pd, fault)
        ELSE /\ user_states' = [us1 EXCEPT ![u] =
                     Put(Put(st, step, v), "current_step", next_step(step))]
             /\ UNCHANGED <<now, price, dbVars, _checkout_lock, suspended>>

\* a text message that is not a command
handle_message(u, text, pd, fault) ==
    LET us1 == get_user_state(user_states, u, now)
    IN  IF InCheckoutFlow(us1, u)
        THEN _collect_shipping_info(u, text, pd, fault)
        ELSE /\ user_states' = us1
             /\ UNCHANGED <<now, price, dbVars, _checkout_lock, suspended>>

\* ------------------------------------------------------------------------
\* Payment oracle answers and the three paths that change an order's status
\* ------------------------------------------------------------------------
NoObs == [found |-> FALSE, tx_hash |-> "", amount |-> 0, confirmations |-> 0]

\* What MoneroHandler.check_payment(payment_id, expected) may return
Observations(expected) ==
    {NoObs} \cup
    {[found |-> TRUE, tx_hash |-> "tx", amount |-> a, confirmations |-> c] :
        a \in {expected, expected + 1},
        c \in {CONFIRMATIONS_REQUIRED - 1, CONFIRMATIONS_REQUIRED}}

ObsFor(o) == IF o \in OrderIds THEN Observations(orders[o].total_amount_xmr) ELSE {NoObs}

\* mutant: the Payment row records the expected amount, not the observed one
NewPayment_ExpectedAmount(o, obs) ==
    [order_id |-> o,
     tx_hash |-> obs.tx_hash,
     amount_xmr |-> orders[o].total_amount_xmr,
     confirmations |-> obs.confirmations]

NewPayment(o, obs) ==
    [order_id |-> o,
     tx_hash |-> obs.tx_hash,
     amount_xmr |-> obs.amount,
     confirmations |-> obs.confirmations]

\* mutant: any observation confirms, whatever its confirmations
Confirming_AnyObservation(obs) == obs.found

Confirming(obs) == obs.found /\ obs.confirmations >= CONFIRMATIONS_REQUIRED

\* What _check_payment(o) answers when the oracle reports obs.
_check_payment_reply(o, obs) ==
    IF o \notin OrderIds THEN "order_not_found"
    ELSE IF now > orders[o].expires_at THEN "payment_expired"
    ELSE IF Confirming(obs) THEN "payment_confirmed"
    ELSE IF obs.found THEN "payment_pending"
    ELSE "no_payment"

\* mutant: a Check past the expiry expires every order that is past its expiry
_check_payment_ExpiresAll(o, obs) ==
    /\ IF o \notin OrderIds
       THEN UNCHANGED <<orders, payments>>
       ELSE IF now > orders[o].expires_at
       THEN /\ orders' = [q \in OrderIds |->
                            IF now > orders[q].expires_at
                            THEN [orders[q] EXCEPT !.status = "expired"]
                            ELSE orders[q]]
            /\ UNCHANGED payments
       ELSE IF Confirming(obs)
       THEN /\ BagCardinality(payments) < MaxPayments
            /\ orders' = [orders EXCEPT ![o].status = "confirmed",
                                        ![o].confirmed_at = now]
            /\ payments' = payments (+) SetToBag({NewPayment(o, obs)})
       ELSE UNCHANGED <<orders, payments>>
    /\ UNCHANGED <<now, price, users, carts, order_items, shipping_addresses, dlgVars>>

\* mutant: a confirming Check stamps the order but adds no Payment row
_check_payment_NoPaymentRow(o, obs) ==
    /\ IF o \notin OrderIds
       THEN UNCHANGED <<orders, payments>>
       ELSE IF now > orders[o].expires_at
       THEN /\ orders' = [orders EXCEPT ![o].status = "expired"]
            /\ UNCHANGED payments
       ELSE IF Confirming(obs)
       THEN /\ orders' = [orders EXCEPT ![o].status = "confirmed",
                                        ![o].confirmed_at = now]
            /\ UNCHANGED payments
       ELSE UNCHANGED <<orders, payments>>
    /\ UNCHANGED <<now, price, users, carts, order_items, shipping_addresses, dlgVars>>

\* button check_payment_<o>
_check_payment(o, obs) ==
    /\ IF o \notin OrderIds
       THEN UNCHANGED <<orders, payments>>
       ELSE IF now > orders[o].expires_at
       THEN /\ orders' = [orders EXCEPT ![o].status = "expired"]
            /\ UNCHANGED payments
       ELSE IF Confirming(obs)
       THEN /\ BagCardinality(payments) < MaxPayments
            /\ orders' = [orders EXCEPT ![o].status = "confirmed",
                                        ![o].confirmed_at = now]
            /\ payments' = payments (+) SetToBag({NewPayment(o, obs)})
       ELSE UNCHANGED <<orders, payments>>
    /\ UNCHANGED <<now, price, users, carts, order_items, shipping_addresses, dlgVars>>

\* mutant: a found payment confirms the order, whatever its confirmations
verify_payment_complete_AnyConfirmations(o, obs) ==
    /\ o \in OrderIds
    /\ IF obs.found
       THEN /\ orders' = IF orders[o].status # "confirmed"
                         THEN [orders EXCEPT ![o].status = "confirmed",
                                             ![o].confirmed_at = now]
                         ELSE orders
            /\ payments' = IF NumPayments(o) = 0
                           THEN payments (+) SetToBag({NewPayment(o, obs)})
                           ELSE payments
       ELSE /\ orders' = IF now > orders[o].expires_at /\ orders[o].status = "pending"
                         THEN [orders EXCEPT ![o].status = "expired"]
                         ELSE orders
            /\ UNCHANGED payments
    /\ UNCHANGED <<now, price, users, carts, order_items, shipping_addresses, dlgVars>>

\* MoneroHandler.verify_payment_complete(o)
verify_payment_complete(o, obs) ==
    /\ o \in OrderIds
    /\ IF obs.found
       THEN IF obs.confirmations >= CONFIRMATIONS_REQUIRED
            THEN /\ orders' = IF orders[o].status # "confirmed"
                              THEN [orders EXCEPT ![o].status = "confirmed",
                                                  ![o].confirmed_at = now]
                              ELSE orders
                 /\ payments' = IF NumPayments(o) = 0
                                THEN payments (+) SetToBag({NewPayment(o, obs)})
                                ELSE payments
            ELSE UNCHANGED <<orders, payments>>
       ELSE /\ orders' = IF now > orders[o].expires_at /\ orders[o].status = "pending"
                         THEN [orders EXCEPT ![o].status = "expired"]
                         ELSE orders
            /\ UNCHANGED payments
    /\ UNCHANGED <<now, price, users, carts, order_items, shipping_addresses, dlgVars>>

\* mutant: the sweep selects the pending orders but changes none
expire_old_orders_Idle ==
    /\ orders' = [o \in OrderIds |->
                    IF orders[o].status = "pending" /\ orders[o].expires_at < now
                    THEN orders[o]
                    ELSE orders[o]]
    /\ UNCHANGED <<now, price, users, carts, order_items, shipping_addresses, payments,
                   dlgVars>>

\* mutant: the sweep expires every order past its expiry, whatever its status
expire_old_orders_AnyStatus ==
    /\ orders' = [o \in OrderIds |->
                    IF orders[o].expires_at < now
                    THEN [orders[o] EXCEPT !.status = "expired"]
                    ELSE orders[o]]
    /\ UNCHANGED <<now, price, users, carts, order_items, shipping_addresses, payments,
                   dlgVars>>

\* mutant: the sweep also deletes the items of the orders it expires
expire_old_orders_DropsItems ==
    /\ orders' = [o \in OrderIds |->
                    IF orders[o].status = "pending" /\ orders[o].expires_at < now
                    THEN [orders[o] EXCEPT !.status = "expired"]
                    ELSE orders[o]]
    /\ order_items' = {r \in order_items :
                          ~(orders[r.order_id].status = "pending"
                              /\ orders[r.order_id].expires_at < now)}
    /\ UNCHANGED <<now, price, users, carts, shipping_addresses, payments, dlgVars>>

\* the job expire_old_orders
expire_old_orders ==
    /\ orders' = [o \in OrderIds |->
                    IF orders[o].status = "pending" /\ orders[o].expires_at < now
                    THEN [orders[o] EXCEPT !.status = "expired"]
                    ELSE orders[o]]
    /\ UNCHANGED <<now, price, users, carts, order_items, shipping_addresses, payments,
                   dlgVars>>

\* ------------------------------------------------------------------------
\* Specification of the shop: cart, checkout dialogue and order creation
\* ------------------------------------------------------------------------
\* The oracle and the faults are consulted only by a message that completes
\* the dialogue; any other message ignores them.
AtLastStep(u) ==
    /\ InCheckoutFlow(user_states, u)
    /\ Has(user_states[u], "current_step")
    /\ user_states[u]["current_step"] = "zip_code"

OracleInputs(u) == IF AtLastStep(u) THEN OracleStates ELSE {OracleUp}
FaultInputs(u) == IF AtLastStep(u) THEN Faults ELSE {"none"}

Next ==
    \/ \E u \in ActiveUsers : start(u) /\ UNCHANGED <<limiterVars, walletVars>>
    \/ \E u \in ActiveUsers : show_products(u) /\ UNCHANGED <<limiterVars, walletVars>>
    \/ \E u \in ActiveUsers : show_cart(u) /\ UNCHANGED <<limiterVars, walletVars>>
    \/ \E u \in ActiveUsers : clear_cart(u) /\ UNCHANGED <<limiterVars, walletVars>>
    \/ \E u \in ActiveUsers : show_orders(u) /\ UNCHANGED <<limiterVars, walletVars>>
    \/ \E u \in ActiveUsers : cancel_operation(u) /\ UNCHANGED <<limiterVars, walletVars>>
    \/ \E u \in ActiveUsers : debug_state(u) /\ UNCHANGED <<limiterVars, walletVars>>
    \/ \E u \in ActiveUsers, p \in Products \cup {UnknownProduct} : _add_to_cart(u, p) /\ UNCHANGED <<limiterVars, walletVars>>
    \/ \E u \in ActiveUsers : _start_checkout(u) /\ UNCHANGED <<limiterVars, walletVars>>
    \/ \E u \in ActiveUsers : _start_checkout_tail(u) /\ UNCHANGED <<limiterVars, walletVars>>
    \/ \E u \in ActiveUsers, text \in Texts :
           \E pd \in OracleInputs(u), fault \in FaultInputs(u) :
               handle_message(u, text, pd, fault) /\ UNCHANGED <<limiterVars, walletVars>>
    \/ \E u \in ActiveUsers : _create_order_tail(u) /\ UNCHANGED <<limiterVars, walletVars>>
    \/ \E p \in Repriced, v \in Prices : SetPrice(p, v) /\ UNCHANGED <<limiterVars, walletVars>>

Spec == Init /\ [][Next]_vars

\* ------------------------------------------------------------------------
\* Specification of the payment lifecycle: MaxOrders orders have been
\* created, now or one timeout ago, and are checked, swept and left to expire
\* ------------------------------------------------------------------------
PaidCart == {[product_id |-> 1, quantity |-> 1]}
PaidFields == [f \in StepNames |-> TxtLong]

InitPay ==
    /\ now = TickStep
    /\ users = ActiveUsers
    /\ price = SeedPrice
    /\ carts = <<>>
    /\ \E created \in [1..MaxOrders -> {0, TickStep}] :
           /\ \A o, q \in 1..MaxOrders : o < q => created[o] <= created[q]
           /\ orders = [o \in 1..MaxOrders |->
                           NewOrder(o, 1, o, cart_total(PaidCart, SeedPrice), created[o])]
    /\ order_items = UNION {NewOrderItems(o, PaidCart, SeedPrice) : o \in 1..MaxOrders}
    /\ shipping_addresses = [o \in 1..MaxOrders |-> NewShippingAddress(PaidFields)]
    /\ payments = EmptyBag
    /\ user_states = <<>>
    /\ _checkout_lock = {}
    /\ suspended = [u \in Users |-> [create |-> 0, start |-> 0]]
    /\ calls = [u \in Users |-> <<>>]
    /\ accepted = [u \in Users |-> <<>>]
    /\ wallet = EmptyWallet
    /\ payment_info = Unchecked

NextPay ==
    \/ \E o \in 1..(MaxOrders + 1) : \E obs \in ObsFor(o) : _check_payment(o, obs) /\ UNCHANGED <<limiterVars, walletVars>>
    \/ \E o \in 1..MaxOrders : \E obs \in ObsFor(o) : verify_payment_complete(o, obs) /\ UNCHANGED <<limiterVars, walletVars>>
    \/ expire_old_orders /\ UNCHANGED <<limiterVars, walletVars>>
    \/ Tick /\ UNCHANGED <<limiterVars, walletVars>>

SpecPay == InitPay /\ [][NextPay]_vars

\* ------------------------------------------------------------------------
\* Claims about the payment lifecycle (SpecPay)
\* ------------------------------------------------------------------------
Terminal(o) == orders[o].status \in {"confirmed", "expired"}
Expired(o) == now > orders[o].expires_at
Checks(o, obs) == _check_payment(o, obs) \/ verify_payment_complete(o, obs)
MeetsThreshold(obs) == obs.found /\ obs.confirmations >= CONFIRMATIONS_REQUIRED

\* C1: once an order is confirmed or expired, no step of any operation
\* (Check, verify_payment_complete, the Reaper) changes its status.
C1_TerminalIsFinal ==
    [][\A o \in OrderIds : Terminal(o) => orders'[o].status = orders[o].status]_vars

\* C2: a Check made while the oracle's observation meets the threshold leaves
\* exactly one Payment row for the order, however many such Checks came before.
C2_OnePaymentPerOrder ==
    [][\A o \in OrderIds : \A obs \in ObsFor(o) :
          (MeetsThreshold(obs) /\ ~Expired(o) /\ Checks(o, obs))
              => NumPayments(o)' = 1]_vars

\* C6: a Check of an order past its expires_at expires it if it is pending,
\* whatever the oracle reports, and leaves an expired order expired and the
\* payments table as it is.
C6_CheckAfterExpiry ==
    [][\A o \in OrderIds : \A obs \in ObsFor(o) :
          (Expired(o) /\ Checks(o, obs))
              => /\ orders[o].status = "pending" => orders'[o].status = "expired"
                 /\ orders[o].status = "expired"
                        => orders'[o].status = "expired" /\ payments' = payments]_vars

\* C7: a Check of a pending, unexpired order with an observation of at least
\* CONFIRMATIONS_REQUIRED confirmations confirms the order, stamps confirmed_at
\* and adds a Payment row with the observed tx hash, amount and confirmations.
C7_CheckConfirms ==
    [][\A o \in OrderIds : \A obs \in ObsFor(o) :
          (orders[o].status = "pending" /\ ~Expired(o) /\ MeetsThreshold(obs)
             /\ Checks(o, obs))
              => /\ orders'[o].status = "confirmed"
                 /\ orders'[o].confirmed_at = now
                 /\ payments' = payments (+) SetToBag({[order_id |-> o,
                                                       tx_hash |-> obs.tx_hash,
                                                       amount_xmr |-> obs.amount,
                                                       confirmations |-> obs.confirmations]})]_vars

\* C7 witness: a confirmed order whose one Payment row carries an observed
\* amount above the order's total
C7_Witness ==
    \E o \in OrderIds :
        /\ orders[o].status = "confirmed"
        /\ orders[o].confirmed_at = now
        /\ now > TickStep
        /\ NumPayments(o) = 1
        /\ \E r \in PaymentRows(o) :
               /\ r.amount_xmr = orders[o].total_amount_xmr + 1
               /\ r.confirmations = CONFIRMATIONS_REQUIRED

\* C8: a Check of a pending, unexpired order changes neither the orders nor
\* the payments when the oracle reports nothing or fewer confirmations than
\* required.
C8_CheckBelowThreshold ==
    [][\A o \in OrderIds : \A obs \in ObsFor(o) :
          (orders[o].status = "pending" /\ ~Expired(o) /\ ~MeetsThreshold(obs)
             /\ Checks(o, obs))
              => orders' = orders /\ payments' = payments]_vars

\* C8 witness: an order that is still pending and unexpired after time has
\* passed, next to an order that a Check has confirmed
C8_Witness ==
    \E o, q \in OrderIds :
        /\ orders[o].status = "pending"
        /\ ~Expired(o)
        /\ NumPayments(o) = 0
        /\ now > TickStep
        /\ orders[q].status = "confirmed"

\* ------------------------------------------------------------------------
\* Claims about the cart, the dialogue and order creation (Spec)
\* ------------------------------------------------------------------------
\* A message that completes the dialogue with a valid postal code while the
\* user has a cart with items: _create_order_from_cart runs on that cart.
Completes(u, text, pd, fault) ==
    /\ AtLastStep(u)
    /\ HasCartItems(u)
    /\ (StepNames \ {"zip_code"}) \subseteq DOMAIN user_states[u]
    /\ _validate_input("zip_code", text)
    /\ handle_message(u, text, pd, fault)

\* C3: when the oracle fails during Create, no Order, OrderItem or
\* ShippingAddress is persisted and the cart keeps its items and quantities.
C3_NoPartialOrder ==
    [][\A u \in Users : \A text \in Texts : \A fault \in Faults :
          Completes(u, text, OracleDown, fault)
              => UNCHANGED <<carts, orders, order_items, shipping_addresses, payments>>]_vars

\* C3 witness: a Create has failed and its dialogue is over, the cart is
\* still there with two lines, and nothing was persisted
C3_Witness ==
    \E u \in Users :
        /\ suspended[u].create > 0
        /\ AtLastStep(u)
        /\ "zip_code" \in DOMAIN user_states[u]
        /\ HasCartItems(u)
        /\ Cardinality(carts[u]) = 2
        /\ orders = <<>>
        /\ shipping_addresses = <<>>

\* C4: a valid last field, a cart with items and an available oracle give
\* exactly one new Order: pending, owned by the user, its total the sum of
\* price x quantity over the cart as it is at that moment; the cart is gone.
C4_CreateFromCart ==
    [][\A u \in Users : \A text \in Texts :
          Completes(u, text, OracleUp, "none")
              => /\ Len(orders') = Len(orders) + 1
                 /\ orders'[Len(orders')].status = "pending"
                 /\ orders'[Len(orders')].user_id = u
                 /\ orders'[Len(orders')].total_amount_xmr = SumRows(carts[u], price)
                 /\ SubSeq(orders', 1, Len(orders)) = orders
                 /\ u \notin DOMAIN carts']_vars

\* C4 witness: an order of two units of a repriced product 1 and one unit of
\* product 2 was created, and its owner has no cart
C4_Witness ==
    \E o \in OrderIds :
        /\ orders[o].status = "pending"
        /\ orders[o].total_amount_xmr = 2 * 70 + 70
        /\ Cardinality(ItemsOf(o)) = 2
        /\ orders[o].user_id \notin DOMAIN carts

\* C5: no step changes what an existing order stores or shows of its prices:
\* its OrderItems, the prices read from them, and its total; a price change
\* moves only the total of a cart that holds the product.
C5_PriceSnapshot ==
    [][/\ \A o \in OrderIds :
            /\ ItemsOf(o)' = ItemsOf(o)
            /\ OrderView(o)' = OrderView(o)
            /\ orders'[o].total_amount_xmr = orders[o].total_amount_xmr
       /\ \A p \in Products : \A u \in Users :
            (price'[p] # price[p] /\ HasCartItems(u) /\ \E r \in carts[u] : r.product_id = p)
                => /\ carts' = carts
                   /\ show_cart_reply(u)'.total # show_cart_reply(u).total]_vars

\* C5 witness: an order holds an item whose stored price differs from the
\* product's price of now
C5_Witness ==
    \E o \in OrderIds : \E r \in ItemsOf(o) : r.price_xmr # price[r.product_id]

\* C9: every Order in the database has at least one OrderItem and its
\* ShippingAddress, and the step that adds an Order also adds its items (the
\* lines of the cart) and leaves the owner without a cart.
C9_OrderIsWhole ==
    \A o \in OrderIds :
        /\ ItemsOf(o) # {}
        /\ orders[o].shipping_address_id \in 1..Len(shipping_addresses)

C9_AtomicCreate ==
    /\ []C9_OrderIsWhole
    /\ [][Len(orders') > Len(orders)
            => LET o == Len(orders')
                   u == orders'[o].user_id
               IN  /\ Len(orders') = Len(orders) + 1
                   /\ Len(shipping_addresses') = Len(shipping_addresses) + 1
                   /\ orders'[o].shipping_address_id = Len(shipping_addresses')
                   /\ HasCartItems(u)
                   /\ {[product_id |-> r.product_id, quantity |-> r.quantity] :
                          r \in {i \in order_items' : i.order_id = o}} = carts[u]
                   /\ u \notin DOMAIN carts']_vars

\* C9 witness: an order with two item lines exists and its owner has no cart
C9_Witness ==
    \E o \in OrderIds :
        /\ Cardinality(ItemsOf(o)) = 2
        /\ orders[o].user_id \notin DOMAIN carts
        /\ Len(shipping_addresses) = 1

\* C10: begin_checkout by a user whose checkout dialogue is in progress
\* changes neither the dialogue, the guard set, the suspended handlers nor
\* the database (it is rejected).
C10_NoReentry ==
    [][\A u \in Users :
          (InCheckoutFlow(user_states, u) /\ _start_checkout(u))
              => UNCHANGED <<dlgVars, dbVars>>]_vars

\* ------------------------------------------------------------------------
\* Claims about the end of a checkout (Spec)
\* ------------------------------------------------------------------------
\* C11: when a checkout ends, by /cancel or by _create_order_from_cart
\* returning on any of its branches (order created, cart empty, oracle
\* failure, exception), the user is not in _checkout_lock; and begin_checkout
\* by a user who is not in _checkout_lock and has a cart with items starts
\* the dialogue at its first field.
C11_GuardReleased ==
    [][\A u \in Users :
          /\ (cancel_operation(u) \/ _create_order_tail(u)) => u \notin _checkout_lock'
          /\ (u \notin _checkout_lock /\ HasCartItems(u) /\ _start_checkout(u))
                => /\ InCheckoutFlow(user_states', u)
                   /\ user_states'[u]["current_step"] = "full_name"
                   /\ u \in _checkout_lock']_vars

\* C11 witness: a second dialogue is in progress after a first one has ended
\* with an order
C11_Witness ==
    \E u \in Users :
        /\ \E o \in OrderIds : orders[o].user_id = u
        /\ suspended[u].create = 0
        /\ InCheckoutFlow(user_states, u)
        /\ u \in _checkout_lock
        /\ HasCartItems(u)

\* ------------------------------------------------------------------------
\* Serial executions: updates handled one at a time (start_polling), every
\* handler running to its end before the next one starts
\* ------------------------------------------------------------------------
Quiescent(u) == suspended[u].create = 0 /\ suspended[u].start = 0

NextSerial ==
    IF \A u \in Users : Quiescent(u)
    THEN Next
    ELSE \E u \in ActiveUsers :
             (_start_checkout_tail(u) \/ _create_order_tail(u)) /\ UNCHANGED <<limiterVars, walletVars>>

SpecSerial == Init /\ [][NextSerial]_vars

\* C12: when no handler of a user is suspended, the user's dialogue state and
\* guard membership are those a serial execution can produce; every serial
\* execution leaves a user who is in a dialogue inside _checkout_lock (an
\* invariant of SpecSerial), so every interleaving must do so too.
C12_SerialOutcome ==
    \A u \in Users :
        (Quiescent(u) /\ InCheckoutFlow(user_states, u)) => u \in _checkout_lock

\* ------------------------------------------------------------------------
\* Claims about the steps of the checkout dialogue (Spec)
\* ------------------------------------------------------------------------
StepIndex(step) == CHOOSE i \in 1..Len(Steps) : Steps[i] = step
CurrentStep(us, u) == us[u]["current_step"]

\* C13: within a dialogue (any step but a begin_checkout that starts one) the
\* current step stays or moves to the next field of the list; a dialogue at
\* some field has stored every field before it; and _create_order_from_cart
\* is entered only from the zip_code step.
C13_FieldsHeld ==
    \A u \in Users :
        InCheckoutFlow(user_states, u)
            => /\ CurrentStep(user_states, u) \in StepNames
               /\ \A i \in 1..(StepIndex(CurrentStep(user_states, u)) - 1) :
                      Steps[i] \in DOMAIN user_states[u]

C13_StepsInOrder ==
    /\ []C13_FieldsHeld
    /\ [][\A u \in Users :
            /\ (InCheckoutFlow(user_states, u) /\ InCheckoutFlow(user_states', u)
                  /\ ~_start_checkout(u)
                  /\ CurrentStep(user_states', u) # CurrentStep(user_states, u))
                    => StepIndex(CurrentStep(user_states', u))
                          = StepIndex(CurrentStep(user_states, u)) + 1
            /\ (\/ suspended'[u].create > suspended[u].create
                \/ Len(orders') > Len(orders) /\ orders'[Len(orders')].user_id = u)
                    => AtLastStep(u)]_vars

\* C13 witness: a dialogue that has reached the last field with all five
\* fields before it stored, the optional one among them
C13_Witness ==
    \E u \in Users :
        /\ AtLastStep(u)
        /\ (StepNames \ {"zip_code"}) \subseteq DOMAIN user_states[u]
        /\ "zip_code" \notin DOMAIN user_states[u]
        /\ user_states[u]["apt_number"] = <<"a">>

\* A text message that is invalid at the step the user's dialogue is at:
\* every field but the optional one needs at least two characters.
Rejected(u, text) ==
    /\ InCheckoutFlow(user_states, u)
    /\ CurrentStep(user_states, u) \in StepNames \ {"apt_number"}
    /\ Len(Strip(text)) < 2

\* C14: a text message with an invalid value for the current step leaves the
\* dialogue state (current step and collected fields), the lock, the suspended
\* handlers and every table unchanged.
C14_InvalidInputNoChange ==
    [][\A u \in Users : \A text \in Texts :
          Rejected(u, text)
              => \A pd \in OracleInputs(u) : \A fault \in FaultInputs(u) :
                    handle_message(u, text, pd, fault)
                        => UNCHANGED <<user_states, _checkout_lock, suspended, dbVars>>]_vars

\* C14 witness: a dialogue waiting at a field that rejects one of the texts
\* and accepts another, with fields already collected
C14_Witness ==
    \E u \in Users :
        /\ Rejected(u, TxtPad)
        /\ ~Rejected(u, TxtLong)
        /\ CurrentStep(user_states, u) = "zip_code"
        /\ HasCartItems(u)

\* C15: a message that gives a valid last field enters _create_order_from_cart,
\* and on every branch of it (cart empty, oracle failure, exception, order
\* created) the handler goes on to its closing statements, which leave the
\* user without dialogue state.
C15_StateClearedAfterCreate ==
    [][\A u \in Users :
          /\ \A text \in Texts :
                (AtLastStep(u) /\ _validate_input("zip_code", Strip(text)))
                    => \A pd \in OracleStates : \A fault \in Faults :
                          handle_message(u, text, pd, fault)
                              => suspended'[u].create = suspended[u].create + 1
          /\ _create_order_tail(u) => u \notin DOMAIN user_states']_vars

\* C15 witness: a user whose order was created and whose handler has ended:
\* no dialogue state, not in the lock
C15_Witness ==
    \E u \in Users :
        /\ \E o \in OrderIds : orders[o].user_id = u
        /\ suspended[u].create = 0
        /\ u \notin DOMAIN user_states
        /\ u \notin _checkout_lock
        /\ ~HasCartItems(u)

\* C16: /cancel, in whatever state it is issued, leaves the user without
\* dialogue state and outside _checkout_lock, and changes no table: users,
\* carts, orders, order items, shipping addresses and payments stay as they are.
C16_CancelClearsOnly ==
    [][\A u \in Users :
          cancel_operation(u)
              => /\ u \notin DOMAIN user_states'
                 /\ u \notin _checkout_lock'
                 /\ UNCHANGED <<dbVars, price>>]_vars

\* C16 witness: a user with an order and a new cart who has no dialogue state
\* and is outside the lock, while the handler that created the order is still
\* suspended at its reply
C16_Witness ==
    \E u \in Users :
        /\ \E o \in OrderIds : orders[o].user_id = u
        /\ suspended[u].create > 0
        /\ HasCartItems(u)
        /\ u \notin DOMAIN user_states
        /\ u \notin _checkout_lock

\* ------------------------------------------------------------------------
\* Specification of an idle dialogue: a registered user with a cart, the
\* checkout dialogue, and a clock that runs past the staleness window
\* ------------------------------------------------------------------------
InitStale ==
    /\ now = 0
    /\ users = ActiveUsers
    /\ price = SeedPrice
    /\ carts = [u \in ActiveUsers |-> PaidCart]
    /\ orders = <<>>
    /\ order_items = {}
    /\ shipping_addresses = <<>>
    /\ payments = EmptyBag
    /\ user_states = <<>>
    /\ _checkout_lock = {}
    /\ suspended = [u \in Users |-> [create |-> 0, start |-> 0]]
    /\ calls = [u \in Users |-> <<>>]
    /\ accepted = [u \in Users |-> <<>>]
    /\ wallet = EmptyWallet
    /\ payment_info = Unchecked

\* Time passes with no update handled.
Idle ==
    /\ now + TickStep <= MaxIdleTicks * TickStep
    /\ now' = now + TickStep
    /\ UNCHANGED <<price, dbVars, dlgVars>>

NextStale ==
    \/ \E u \in ActiveUsers : _start_checkout(u) /\ UNCHANGED <<limiterVars, walletVars>>
    \/ \E u \in ActiveUsers, text \in Texts : handle_message(u, text, OracleUp, "none") /\ UNCHANGED <<limiterVars, walletVars>>
    \/ \E u \in ActiveUsers : _create_order_tail(u) /\ UNCHANGED <<limiterVars, walletVars>>
    \/ \E u \in ActiveUsers : debug_state(u) /\ UNCHANGED <<limiterVars, walletVars>>
    \/ \E u \in ActiveUsers : cancel_operation(u) /\ UNCHANGED <<limiterVars, walletVars>>
    \/ Idle /\ UNCHANGED <<limiterVars, walletVars>>

SpecStale == InitStale /\ [][NextStale]_vars

\* The user's dialogue state is older than the staleness window.
Stale(u) == u \in DOMAIN user_states /\ now - user_states[u]["created_at"] > STALE_AFTER

\* C17: the next handler that reads a user's stale dialogue state leaves the
\* user outside the dialogue and outside _checkout_lock, and a begin_checkout
\* by a user whose dialogue state is stale starts a new dialogue.
C17_StaleIsCancelled ==
    [][\A u \in Users :
          /\ (Stale(u) /\ (debug_state(u)
                            \/ \E text \in Texts : handle_message(u, text, OracleUp, "none")))
                => /\ ~InCheckoutFlow(user_states', u)
                   /\ u \notin _checkout_lock'
          /\ (Stale(u) /\ HasCartItems(u) /\ _start_checkout(u))
                => /\ InCheckoutFlow(user_states', u)
                   /\ CurrentStep(user_states', u) = "full_name"]_vars

\* ------------------------------------------------------------------------
\* Specification of the Reaper: the orders of InitPay, the job
\* expire_old_orders run again and again (job_queue.run_repeating), the clock
\* going on, and a user who may press Check or not
\* ------------------------------------------------------------------------
NextReaper ==
    \/ expire_old_orders /\ UNCHANGED <<limiterVars, walletVars>>
    \/ Idle /\ UNCHANGED <<limiterVars, walletVars>>
    \/ \E o \in 1..MaxOrders : \E obs \in ObsFor(o) : _check_payment(o, obs) /\ UNCHANGED <<limiterVars, walletVars>>

SpecReaper ==
    /\ InitPay
    /\ [][NextReaper]_vars
    /\ WF_vars(expire_old_orders /\ UNCHANGED <<limiterVars, walletVars>>)
    /\ WF_vars(Idle /\ UNCHANGED <<limiterVars, walletVars>>)

\* C18: every pending order eventually is no longer pending, whether or not
\* the user ever presses Check, when the Reaper keeps running and time goes on.
C18_PendingLeaves ==
    \A o \in 1..MaxOrders :
        (orders[o].status = "pending") ~> (orders[o].status # "pending")

\* C18 witness: the sweep has expired an order that no Check ever touched,
\* while another order is still pending
C18_Witness ==
    \E o, q \in OrderIds :
        /\ orders[o].status = "expired"
        /\ orders[o].expires_at < now
        /\ payments = EmptyBag
        /\ orders[q].status = "pending"
        /\ orders[q].expires_at = now

\* C19: a sweep of the Reaper turns into 'expired' exactly the orders that are
\* pending with expires_at < now; every other order (confirmed, expired,
\* pending and not past its expiry) and every other field and table is unchanged.
C19_SweepExpiresPendingOnly ==
    [][expire_old_orders
          => /\ \A o \in OrderIds :
                  /\ (orders[o].status = "pending" /\ orders[o].expires_at < now)
                        => orders'[o] = [orders[o] EXCEPT !.status = "expired"]
                  /\ ~(orders[o].status = "pending" /\ orders[o].expires_at < now)
                        => orders'[o] = orders[o]
             /\ Len(orders') = Len(orders)
             /\ payments' = payments]_vars

\* C19 witness: past the expiry of both orders, one is expired without any
\* payment and the other is still confirmed
C19_Witness ==
    \E o, q \in OrderIds :
        /\ orders[o].status = "expired"
        /\ NumPayments(o) = 0
        /\ orders[q].status = "confirmed"
        /\ orders[q].expires_at < now
        /\ orders[o].expires_at < now

\* ------------------------------------------------------------------------
\* Claims about the cart (Spec)
\* ------------------------------------------------------------------------
\* C20: a cart never holds two lines of one product; an add_to_cart of a
\* product by a registered user raises that product's quantity by exactly one
\* (from zero when the cart or the line is new) and leaves the other lines as
\* they are; and no step changes the quantities of a cart in any other way
\* while the cart exists, so a line's quantity is the number of adds of its
\* product since the cart was created.
C20_OneLinePerProduct ==
    \A u \in DOMAIN carts : \A r, q \in carts[u] :
        r.product_id = q.product_id => r = q

C20_CartMerge ==
    /\ []C20_OneLinePerProduct
    /\ [][\A u \in Users :
            /\ \A p \in Products :
                  (u \in users /\ _add_to_cart(u, p))
                      => /\ u \in DOMAIN carts'
                         /\ UnitsOf(carts'[u], p) = UnitsOf(CartOf(u), p) + 1
                         /\ \A x \in Products \ {p} :
                                UnitsOf(carts'[u], x) = UnitsOf(CartOf(u), x)
            /\ (u \in DOMAIN carts' /\ carts'[u] # CartOf(u))
                  => \E p \in Products :
                        /\ UnitsOf(carts'[u], p) = UnitsOf(CartOf(u), p) + 1
                        /\ \A x \in Products \ {p} :
                               UnitsOf(carts'[u], x) = UnitsOf(CartOf(u), x)]_vars

\* C20 witness: a cart with one line of two units of a product next to a
\* line of another product
C20_Witness ==
    \E u \in DOMAIN carts :
        /\ Cardinality(carts[u]) = 2
        /\ \E r \in carts[u] : r.quantity = 2
        /\ \E r \in carts[u] : r.quantity = 1

\* ------------------------------------------------------------------------
\* Specification of the cart: a registered user and an unregistered one press
\* the cart buttons, and the registered one checks out
\* ------------------------------------------------------------------------
NextCart ==
    \/ \E u \in ActiveUsers : start(u) /\ UNCHANGED <<limiterVars, walletVars>>
    \/ \E u \in Users, p \in Products \cup {UnknownProduct} : _add_to_cart(u, p) /\ UNCHANGED <<limiterVars, walletVars>>
    \/ \E u \in Users : clear_cart(u) /\ UNCHANGED <<limiterVars, walletVars>>
    \/ \E u \in Users : show_cart(u) /\ UNCHANGED <<limiterVars, walletVars>>
    \/ \E u \in ActiveUsers : _start_checkout(u) /\ UNCHANGED <<limiterVars, walletVars>>
    \/ \E u \in ActiveUsers : handle_message(u, TxtLong, OracleUp, "none") /\ UNCHANGED <<limiterVars, walletVars>>
    \/ \E u \in ActiveUsers : _create_order_tail(u) /\ UNCHANGED <<limiterVars, walletVars>>
    \/ \E o \in {Len(orders) + 1} : _check_payment(o, NoObs) /\ UNCHANGED <<limiterVars, walletVars>>
    \/ \E p \in Repriced, v \in Prices : SetPrice(p, v) /\ UNCHANGED <<limiterVars, walletVars>>

SpecCart == Init /\ [][NextCart]_vars

\* C21: in every reachable state every Cart belongs to one registered user,
\* no user has two Carts (carts.user_id is unique: the carts table is keyed by
\* its owner), and every CartItem is a line of a known product with a
\* quantity of at least 1.
C21_CartsWellFormed ==
    /\ DOMAIN carts \subseteq users
    /\ \A u \in DOMAIN carts : \A r \in carts[u] :
           r.product_id \in Products /\ r.quantity >= 1

\* C21 witness: after an order was created from the user's first cart, the
\* user is in a second dialogue with a new cart that holds MaxQty units of
\* one product
C21_Witness ==
    \E u \in DOMAIN carts :
        /\ \E o \in OrderIds : orders[o].user_id = u
        /\ \E r \in carts[u] : r.quantity = MaxQty
        /\ InCheckoutFlow(user_states, u)
        /\ CurrentStep(user_states, u) = "city"

\* ------------------------------------------------------------------------
\* Rate limiter and the entry point of the inline buttons
\* ------------------------------------------------------------------------
\* [t for t in self.calls[user_id] if now - t < self.period]
Pruned(ts, t) == SelectSeq(ts, LAMBDA x : t - x < period)

\* mutant: the limit is tested after the call is recorded
is_allowed_OneMore(cs, u, t) == Len(Pruned(cs[u], t)) <= max_calls

\* the value RateLimiter.is_allowed(u) returns at time t
is_allowed(cs, u, t) == Len(Pruned(cs[u], t)) < max_calls

\* rate_limiter.calls after RateLimiter.is_allowed(u) at time t
calls_after(cs, u, t) ==
    [cs EXCEPT ![u] = IF is_allowed(cs, u, t)
                      THEN Append(Pruned(cs[u], t), t)
                      ELSE Pruned(cs[u], t)]

Button(name, arg) == [name |-> name, arg |-> arg]

\* the handlers button_handler dispatches to, by callback data
Dispatch(u, data) ==
    CASE data.name = "view_cart" -> show_cart(u)
      [] data.name = "clear_cart" -> clear_cart(u)
      [] data.name = "start_checkout" -> _start_checkout(u)
      [] data.name = "add_to_cart" -> _add_to_cart(u, data.arg)
      [] data.name = "check_payment" ->
             \E obs \in ObsFor(data.arg) : _check_payment(data.arg, obs)
      [] OTHER -> \* show_products, my_orders, product_details, order_details
             UNCHANGED <<now, price, dbVars, dlgVars>>

\* a press of an inline button
button_handler(u, data) ==
    /\ calls' = calls_after(calls, u, now)
    /\ IF ~is_allowed(calls, u, now)
       THEN UNCHANGED <<now, price, dbVars, dlgVars, accepted>>
       ELSE /\ accepted' = [accepted EXCEPT ![u] = Append(@, now)]
            /\ Dispatch(u, data)

\* ------------------------------------------------------------------------
\* Specification of the rate limiter: one user presses buttons and sends
\* commands, a second user presses a button, and time goes on in steps of
\* half a period
\* ------------------------------------------------------------------------
GateStep == period \div 2
GateTimes == {k * GateStep : k \in 0..MaxGateTicks}

GateButtons ==
    {Button("show_products", 0), Button("view_cart", 0), Button("clear_cart", 0),
     Button("add_to_cart", 1)}

Wait ==
    /\ now + GateStep <= MaxGateTicks * GateStep
    /\ now' = now + GateStep
    /\ UNCHANGED <<price, dbVars, dlgVars, limiterVars, walletVars>>

NextGate ==
    \/ \E u \in ActiveUsers, data \in GateButtons :
           button_handler(u, data) /\ UNCHANGED walletVars
    \/ \E u \in Users \ ActiveUsers :
           /\ Len(accepted[u]) < MaxOtherCalls
           /\ button_handler(u, Button("show_products", 0))
           /\ UNCHANGED walletVars
    \/ \E u \in ActiveUsers : start(u) /\ UNCHANGED <<limiterVars, walletVars>>
    \/ \E u \in ActiveUsers : clear_cart(u) /\ UNCHANGED <<limiterVars, walletVars>>
    \/ Wait

SpecGate == Init /\ [][NextGate]_vars

\* The calls of user u that is_allowed accepted at a time in [t, t + period).
AcceptedIn(u, t) == {i \in 1..Len(accepted[u]) : t <= accepted[u][i] /\ accepted[u][i] < t + period}

\* The user is over the limit: is_allowed would reject a call made now.
OverLimit(u) == ~is_allowed(calls, u, now)

\* C22: in every window of `period` seconds is_allowed has accepted at most
\* max_calls calls of a user; a rejected call adds no timestamp and leaves
\* the user's allowance at every later time as it was; and a call of one user
\* leaves the timestamps of every other user as they are.
C22_WindowBound ==
    \A u \in Users : \A t \in GateTimes : Cardinality(AcceptedIn(u, t)) <= max_calls

C22_RateLimit ==
    /\ []C22_WindowBound
    /\ [][\A u \in Users :
            /\ (OverLimit(u) /\ \E data \in GateButtons : button_handler(u, data))
                  => /\ Len(calls'[u]) <= Len(calls[u])
                     /\ accepted'[u] = accepted[u]
                     /\ \A t \in GateTimes :
                            t >= now => (is_allowed(calls', u, t) <=> is_allowed(calls, u, t))
            /\ (calls'[u] # calls[u] \/ accepted'[u] # accepted[u])
                  => \A v \in Users \ {u} :
                         calls'[v] = calls[v] /\ accepted'[v] = accepted[v]]_vars

\* C22 witness: a user is over the limit for the second time, after the
\* first max_calls calls have left the window, and the other user has called
C22_Witness ==
    \E u, v \in Users :
        /\ u # v
        /\ OverLimit(u)
        /\ Len(accepted[u]) = 2 * max_calls
        /\ accepted[v] # <<>>

\* An inbound action of user u in the rate limiter's specification: a button
\* press, or one of the commands /start and /clear_cart.
Inbound(u) ==
    \/ \E data \in GateButtons : button_handler(u, data) /\ UNCHANGED walletVars
    \/ start(u) /\ UNCHANGED <<limiterVars, walletVars>>
    \/ clear_cart(u) /\ UNCHANGED <<limiterVars, walletVars>>

\* C23: an inbound action (button or command) of a user who is over the limit
\* changes neither the dialogue state, the guard, the carts nor the orders.
C23_GateBeforeEffect ==
    [][\A u \in Users :
          (OverLimit(u) /\ Inbound(u))
              => UNCHANGED <<user_states, _checkout_lock, carts, orders>>]_vars

\* ------------------------------------------------------------------------
\* Specification of two users: both are registered and have a cart, and each
\* goes through the checkout dialogue, cancels, or clears the cart, in any
\* interleaving; an order creation may fail
\* ------------------------------------------------------------------------
InitTwo ==
    /\ now = 0
    /\ users = Users
    /\ price = SeedPrice
    /\ carts = [u \in Users |-> PaidCart]
    /\ orders = <<>>
    /\ order_items = {}
    /\ shipping_addresses = <<>>
    /\ payments = EmptyBag
    /\ user_states = <<>>
    /\ _checkout_lock = {}
    /\ suspended = [u \in Users |-> [create |-> 0, start |-> 0]]
    /\ calls = [u \in Users |-> <<>>]
    /\ accepted = [u \in Users |-> <<>>]
    /\ wallet = EmptyWallet
    /\ payment_info = Unchecked

\* A dialogue, cart or checkout action of user u.
ActionOf(u) ==
    \/ _start_checkout(u)
    \/ _start_checkout_tail(u)
    \/ \E pd \in OracleInputs(u), fault \in FaultInputs(u) :
           handle_message(u, TxtLong, pd, fault)
    \/ _create_order_tail(u)
    \/ cancel_operation(u)
    \/ clear_cart(u)

NextTwo == \E u \in Users : ActionOf(u) /\ UNCHANGED <<limiterVars, walletVars>>

SpecTwo == InitTwo /\ [][NextTwo]_vars

\* What the bot holds of user u's session: dialogue state, guard membership,
\* cart.
SessionOf(u) ==
    [state |-> IF u \in DOMAIN user_states THEN user_states[u] ELSE None,
     guarded |-> u \in _checkout_lock,
     cart |-> IF u \in DOMAIN carts THEN carts[u] ELSE None]

\* C24: a dialogue, cart or checkout action of user A, including an order
\* creation that fails on the database or on the reply, leaves the dialogue
\* state, the guard membership and the cart of every other user unchanged.
C24_UsersIsolated ==
    [][\A a \in Users : \A b \in Users \ {a} :
          ActionOf(a) => SessionOf(b)' = SessionOf(b)]_vars

\* C24 witness: one user's order creation has failed and its handler is at
\* its reply, while the other user is in the middle of a dialogue, guarded
\* and with a cart
C24_Witness ==
    \E a \in Users : \E b \in Users \ {a} :
        /\ suspended[a].create > 0
        /\ orders = <<>>
        /\ HasCartItems(a)
        /\ InCheckoutFlow(user_states, b)
        /\ CurrentStep(user_states, b) = "city"
        /\ b \in _checkout_lock
        /\ HasCartItems(b)

NotFoundReplies == {"product_not_found", "order_not_found", "user_not_found"}

\* C25: add_to_cart with an unknown product id or by a user with no User
\* record, and check_payment with an unknown order id, are answered with a
\* not-found reply, and such a step changes no table and no dialogue state.
C25_RepliesNotFound ==
    /\ \A u \in Users : \A p \in Products \cup {UnknownProduct} :
           (p \notin Products \/ u \notin users)
               => _add_to_cart_reply(u, p) \in NotFoundReplies
    /\ \A o \in 1..(Len(orders) + 1) :
           o \notin OrderIds => _check_payment_reply(o, NoObs) \in NotFoundReplies

C25_NotFound ==
    /\ []C25_RepliesNotFound
    /\ [][/\ \A u \in Users : \A p \in Products \cup {UnknownProduct} :
                ((p \notin Products \/ u \notin users) /\ _add_to_cart(u, p))
                    => UNCHANGED <<dbVars, dlgVars>>
          /\ \A o \in 1..(Len(orders) + 1) :
                (o \notin OrderIds /\ _check_payment(o, NoObs))
                    => UNCHANGED <<dbVars, dlgVars>>]_vars

\* ------------------------------------------------------------------------
\* MoneroHandler.check_payment
\* ------------------------------------------------------------------------
\* TRUE iff rpc_call(method, wallet_rpc=True) returns a result; it returns
\* None when the request, the HTTP status, the JSON or the RPC itself fails
rpc_call_ok(w, method) == method \notin w.down

\* the answer of get_payments for a payment id
get_payments(w, pid) == SelectSeq(w.payments, LAMBDA p : p.payment_id = pid)

\* the payments of get_payments that pass the amount test of the first path
Path1Hits(rows, expected) ==
    SelectSeq(rows, LAMBDA p : p.amount >= expected - EPSILON)

\* the incoming transfers that pass the test of the fallback path
Path2Hits(rows, pid, expected) ==
    SelectSeq(rows, LAMBDA t : t.payment_id = pid /\ t.amount >= expected)

Observation(tx, confirmations) ==
    [found |-> TRUE, tx_hash |-> tx.tx_hash, amount |-> tx.amount,
     confirmations |-> confirmations]

\* MoneroHandler.check_payment(payment_id, expected_amount); NoObs is None
check_payment(w, pid, expected) ==
    LET hits1 == IF rpc_call_ok(w, "get_payments")
                 THEN Path1Hits(get_payments(w, pid), expected)
                 ELSE <<>>
        hits2 == IF rpc_call_ok(w, "get_transfers")
                 THEN Path2Hits(w.transfers, pid, expected)
                 ELSE <<>>
    IN  IF ~rpc_call_ok(w, "get_height") THEN NoObs
        ELSE IF hits1 # <<>>
        THEN Observation(Head(hits1),
                         IF Head(hits1).block_height > 0
                         THEN IF WalletHeight - Head(hits1).block_height > 0
                              THEN WalletHeight - Head(hits1).block_height ELSE 0
                         ELSE 0)
        ELSE IF hits2 # <<>>
        THEN Observation(Head(hits2), Head(hits2).confirmations)
        ELSE NoObs

\* ------------------------------------------------------------------------
\* Specification of the oracle: a wallet that holds up to MaxTxs transactions
\* and whose RPC methods may fail is asked once for the order's payment
\* ------------------------------------------------------------------------
Payments ==
    {[payment_id |-> pid, tx_hash |-> "tx", amount |-> a, block_height |-> MinedAt] :
        pid \in {1}, a \in TxAmounts}
Transfers ==
    {[payment_id |-> pid, tx_hash |-> "tx", amount |-> a,
      confirmations |-> CONFIRMATIONS_REQUIRED] :
        pid \in PaymentIds, a \in TxAmounts}

RECURSIVE SeqsUpTo(_, _)
SeqsUpTo(S, n) ==
    IF n = 0 THEN {<<>>}
    ELSE LET shorter == SeqsUpTo(S, n - 1)
         IN  shorter \cup {Append(q, x) : q \in shorter, x \in S}

Wallets ==
    {[down |-> d, payments |-> ps, transfers |-> ts] :
        d \in SUBSET RpcMethods,
        ps \in SeqsUpTo(Payments, MaxTxs),
        ts \in SeqsUpTo(Transfers, MaxTxs)}

InitOracle ==
    /\ now = 0
    /\ users = {}
    /\ price = SeedPrice
    /\ carts = <<>>
    /\ orders = <<>>
    /\ order_items = {}
    /\ shipping_addresses = <<>>
    /\ payments = EmptyBag
    /\ user_states = <<>>
    /\ _checkout_lock = {}
    /\ suspended = [u \in Users |-> [create |-> 0, start |-> 0]]
    /\ calls = [u \in Users |-> <<>>]
    /\ accepted = [u \in Users |-> <<>>]
    /\ wallet \in {w \in Wallets : Len(w.payments) + Len(w.transfers) <= MaxTxs}
    /\ payment_info = Unchecked

\* self.monero.check_payment(order.payment_id, order.total_amount_xmr)
CheckPayment ==
    /\ payment_info = Unchecked
    /\ payment_info' = <<check_payment(wallet, 1, OrderedAmount)>>
    /\ UNCHANGED <<now, price, dbVars, dlgVars, limiterVars, wallet>>

NextOracle == CheckPayment

SpecOracle == InitOracle /\ [][NextOracle]_vars

\* The wallet holds a transaction of payment id pid whose amount is at least
\* expected - EPSILON.
HoldsMatching(w, pid, expected) ==
    \/ \E i \in 1..Len(w.payments) :
           w.payments[i].payment_id = pid /\ w.payments[i].amount >= expected - EPSILON
    \/ \E i \in 1..Len(w.transfers) :
           w.transfers[i].payment_id = pid /\ w.transfers[i].amount >= expected - EPSILON

\* C26: check_payment returns None only when the wallet was reached, that
\* is when none of its RPC methods failed; a transport or parse failure of
\* the wallet RPC is never reported as None.
C26_NoneMeansReached ==
    \A i \in 1..Len(payment_info) :
        payment_info[i] = NoObs => wallet.down = {}

\* C27: check_payment returns an observation whenever the wallet is reached
\* and holds, in get_payments or in the incoming transfers, a transaction of
\* the payment id with an amount of at least min_amount - EPSILON, and it
\* returns none when every such transaction has a smaller amount.
C27_AmountTolerance ==
    \A i \in 1..Len(payment_info) :
        wallet.down = {}
            => (payment_info[i].found <=> HoldsMatching(wallet, 1, OrderedAmount))

\* C28: the step that creates an order gives it status 'pending' and an
\* expires_at of PAYMENT_TIMEOUT seconds (30 minutes) after the time of that
\* step, and leaves it unconfirmed.
C28_ExpiresAfterTimeout ==
    [][Len(orders') > Len(orders)
          => /\ Len(orders') = Len(orders) + 1
             /\ orders'[Len(orders')].status = "pending"
             /\ orders'[Len(orders')].expires_at = now + PAYMENT_TIMEOUT
             /\ PAYMENT_TIMEOUT = 30 * 60
             /\ orders'[Len(orders')].confirmed_at = NULL]_vars

\* C28 witness: a pending order that was created an hour after the dialogue
\* began, at the moment of its expiry
C28_Witness ==
    \E o \in OrderIds :
        /\ orders[o].status = "pending"
        /\ orders[o].expires_at = 2 * TickStep + PAYMENT_TIMEOUT
        /\ now = orders[o].expires_at

\* C29: view_cart changes neither the carts, the orders, the dialogue state
\* nor the checkout guard, and the total it reports is the sum of the current
\* product price x quantity over the lines of the cart.
C29_TotalIsCurrent ==
    \A u \in Users :
        HasCartItems(u) => show_cart_reply(u).total = SumRows(carts[u], price)

C29_ViewCartIsPure ==
    /\ []C29_TotalIsCurrent
    /\ [][\A u \in Users :
            show_cart(u) => UNCHANGED <<dbVars, user_states, _checkout_lock>>]_vars

\* TRUE iff _check_payment(o) reaches self.monero.check_payment
_check_payment_queries(o) == o \in OrderIds /\ ~(now > orders[o].expires_at)

\* TRUE iff verify_payment_complete(o) reaches self.check_payment: it does so
\* for every order it finds, before it looks at the order's expiry
verify_payment_complete_queries(o) == o \in OrderIds

\* TRUE iff get_payment_status(o) reaches self.check_payment
get_payment_status_queries(o) == o \in OrderIds

\* C30: no Check path queries the oracle for an order that is 'expired' or
\* past its expires_at: neither _check_payment, verify_payment_complete nor
\* get_payment_status reaches check_payment for such an order.
C30_NoQueryWhenExpired ==
    \A o \in OrderIds :
        (orders[o].status = "expired" \/ Expired(o))
            => /\ ~_check_payment_queries(o)
               /\ ~verify_payment_complete_queries(o)
               /\ ~get_payment_status_queries(o)

\* ------------------------------------------------------------------------
\* Claims about what a Check and the Reaper may touch (SpecPay)
\* ------------------------------------------------------------------------
\* The Payment rows of order o, each with the number of its copies.
PaymentsOf(o) == [r \in PaymentRows(o) |-> CopiesIn(r, payments)]

\* The orders whose row or Payment rows a step changes.
Touched ==
    {o \in OrderIds : orders'[o] # orders[o] \/ PaymentsOf(o)' # PaymentsOf(o)}

\* C31: a Check of order O (the button, or verify_payment_complete) leaves
\* the row and the Payment rows of every other order unchanged: a step that
\* changes order Q is no Check of another order; and a step that changes
\* more than one order is a sweep of the Reaper.
C31_CheckTouchesOneOrder ==
    [][/\ \A q \in Touched : \A o \in 1..(MaxOrders + 1) \ {q} : \A obs \in ObsFor(o) :
            ~Checks(o, obs)
       /\ (\E q, r \in Touched : q # r) => expire_old_orders]_vars

\* C31 witness: a Check has confirmed the older order while the younger one,
\* not yet past its expiry, is pending and has no Payment row
C31_Witness ==
    \E o, q \in OrderIds :
        /\ orders[o].status = "confirmed"
        /\ NumPayments(o) = 1
        /\ orders[q].status = "pending"
        /\ NumPayments(q) = 0
        /\ orders[q].expires_at > orders[o].expires_at
        /\ now = orders[q].expires_at

\* ------------------------------------------------------------------------
\* Claims about the staleness window (SpecStale)
\* ------------------------------------------------------------------------
\* A step in which the dialogue of user u accepts a field and moves on.
FieldAccepted(u) ==
    /\ InCheckoutFlow(user_states, u)
    /\ InCheckoutFlow(user_states', u)
    /\ CurrentStep(user_states, u) \in StepNames
    /\ CurrentStep(user_states', u) = next_step(CurrentStep(user_states, u))

\* C32: after a step in which the user submitted a field, get_user_state
\* keeps the dialogue at every time less than STALE_AFTER seconds later,
\* whenever the state record was created.
C32_FreshDialogueKept ==
    [][\A u \in Users :
          FieldAccepted(u)
              => \A t \in {now, now + TickStep, now + STALE_AFTER - 1} :
                    InCheckoutFlow(get_user_state(user_states', u, t), u)]_vars

\* ------------------------------------------------------------------------
\* Specification of the fields: a user with a cart goes through the dialogue
\* and types, at up to MaxOddFields steps, one of the texts of FieldTexts
\* instead of TxtLong
\* ------------------------------------------------------------------------
FieldTexts ==
    {<<"a">>, <<"a", "b">>, <<"a", "b", "c">>, <<"a", "b", "c", "d">>,
     <<" ", "a", "b", " ">>, <<" ", " ", "a", "b", "c">>,
     <<"1", "2">>, <<"a", "-", "1">>, <<"a", " ", "1">>, <<"-", " ", "-">>,
     <<"a", "_", "1">>, <<"a", "b", "c", "d", "_">>,
     <<"n", "o", "n", "e">>, <<"N", "o", "n", "e">>, <<" ", "N", "o", "n", "e">>,
     <<"n", "o", "n", "e", "e">>}

OddFields(u) ==
    IF u \in DOMAIN user_states
    THEN {f \in StepNames \cap DOMAIN user_states[u] : user_states[u][f] # TxtLong}
    ELSE {}

NextFields ==
    \/ \E u \in ActiveUsers : _start_checkout(u) /\ UNCHANGED <<limiterVars, walletVars>>
    \/ \E u \in ActiveUsers : handle_message(u, TxtLong, OracleUp, "none")
                                  /\ UNCHANGED <<limiterVars, walletVars>>
    \/ \E u \in ActiveUsers, text \in FieldTexts :
           /\ InCheckoutFlow(user_states, u)
           /\ Cardinality(OddFields(u)) < MaxOddFields
           /\ handle_message(u, text, OracleUp, "none")
           /\ UNCHANGED <<limiterVars, walletVars>>
    \/ \E u \in ActiveUsers : _create_order_tail(u) /\ UNCHANGED <<limiterVars, walletVars>>

SpecFields == InitStale /\ [][NextFields]_vars

\* What the validation has to accept, for a trimmed value v.
IsZipChar(c) == c \in Letters \cup Digits \cup {" ", "-"}
Acceptable(step, v) ==
    CASE step = "full_name" -> Len(v) >= 3
      [] step = "street_address" -> Len(v) >= 5
      [] step = "apt_number" -> TRUE
      [] step = "city" -> Len(v) >= 2
      [] step = "state" -> Len(v) >= 2
      [] step = "zip_code" ->
             /\ Len(v) >= 3
             /\ \A i \in 1..Len(v) : IsZipChar(v[i])
             /\ \E i \in 1..Len(v) : v[i] \in Letters \cup Digits

\* C33: _validate_input accepts a value at a step exactly when the trimmed
\* value is acceptable there (minimum lengths; the postal code of letters,
\* digits, spaces and hyphens with at least one letter or digit; any unit
\* number); a message in the dialogue is stored, trimmed, exactly when it is
\* acceptable; and the unit number 'none', in any case, is stored in the
\* ShippingAddress as no unit number, every other one as it was typed.
C33_ValidationTable ==
    \A step \in StepNames : \A text \in FieldTexts \cup Texts :
        _validate_input(step, text) <=> Acceptable(step, Strip(text))

C33_Validation ==
    /\ []C33_ValidationTable
    /\ [][\A u \in Users :
            /\ \A text \in FieldTexts \cup Texts :
                  (/\ InCheckoutFlow(user_states, u)
                   /\ CurrentStep(user_states, u) \in StepNames
                   /\ handle_message(u, text, OracleUp, "none")
                   /\ user_states' # user_states)
                      => /\ Acceptable(CurrentStep(user_states, u), Strip(text))
                         /\ user_states'[u][CurrentStep(user_states, u)] = Strip(text)
            /\ (Len(orders') > Len(orders) /\ orders'[Len(orders')].user_id = u)
                  => LET a == shipping_addresses'[Len(shipping_addresses')]
                         typed == user_states[u]["apt_number"]
                     IN  a.apt_number = IF Lower(typed) = <<"n", "o", "n", "e">>
                                        THEN None ELSE typed]_vars

\* C33 witness: an order whose address has no unit number, from a dialogue
\* in which the user typed ' None'
C33_Witness ==
    \E o \in OrderIds :
        /\ shipping_addresses[orders[o].shipping_address_id].apt_number = None
        /\ suspended[orders[o].user_id].create > 0
        /\ user_states[orders[o].user_id]["apt_number"] = <<"N", "o", "n", "e">>

\* C34: a user whose dialogue state has checkout_flow set is in
\* _checkout_lock.
C34_DialogueInsideGuard ==
    \A u \in Users : InCheckoutFlow(user_states, u) => u \in _checkout_lock

\* C35: a user in _checkout_lock, with no handler of theirs suspended, has a
\* dialogue state with checkout_flow set.
C35_GuardInsideDialogue ==
    \A u \in Users :
        (Quiescent(u) /\ u \in _checkout_lock) => InCheckoutFlow(user_states, u)

\* ------------------------------------------------------------------------
\* Specification of one order's life: a user with a cart goes through the
\* dialogue, the order is created, checked, swept and left to expire, while
\* the user may clear the cart and cancel or restart the dialogue
\* ------------------------------------------------------------------------
NextLife ==
    \/ \E u \in ActiveUsers : clear_cart(u) /\ UNCHANGED <<limiterVars, walletVars>>
    \/ \E u \in ActiveUsers : cancel_operation(u) /\ UNCHANGED <<limiterVars, walletVars>>
    \/ \E u \in ActiveUsers : _start_checkout(u) /\ UNCHANGED <<limiterVars, walletVars>>
    \/ \E u \in ActiveUsers : _start_checkout_tail(u) /\ UNCHANGED <<limiterVars, walletVars>>
    \/ \E u \in ActiveUsers : handle_message(u, TxtLong, OracleUp, "none") /\ UNCHANGED <<limiterVars, walletVars>>
    \/ \E u \in ActiveUsers : _create_order_tail(u) /\ UNCHANGED <<limiterVars, walletVars>>
    \/ \E o \in 1..(Len(orders) + 1) : \E obs \in ObsFor(o) : _check_payment(o, obs) /\ UNCHANGED <<limiterVars, walletVars>>
    \/ \E o \in OrderIds : \E obs \in ObsFor(o) : verify_payment_complete(o, obs) /\ UNCHANGED <<limiterVars, walletVars>>
    \/ expire_old_orders /\ UNCHANGED <<limiterVars, walletVars>>
    \/ Idle /\ UNCHANGED <<limiterVars, walletVars>>

SpecLife == InitStale /\ [][NextLife]_vars

\* C36: an order's status becomes 'confirmed' only in a step of a Check of
\* that order (_check_payment or verify_payment_complete) in which the oracle
\* reported, for the order's total, a payment with at least
\* CONFIRMATIONS_REQUIRED confirmations; creation, the sweep, /cancel, the
\* cart and the dialogue never set 'confirmed'.
C36_ConfirmedOnlyByOracle ==
    [][\A o \in DOMAIN orders' :
          (/\ orders'[o].status = "confirmed"
           /\ o \in OrderIds => orders[o].status # "confirmed")
              => /\ o \in OrderIds
                 /\ \E obs \in ObsFor(o) :
                        /\ obs.found
                        /\ obs.confirmations >= CONFIRMATIONS_REQUIRED
                        /\ Checks(o, obs)]_vars

\* C36 witness: an order created by the dialogue and confirmed later, with a
\* Payment row of CONFIRMATIONS_REQUIRED confirmations
C36_Witness ==
    \E o \in OrderIds :
        /\ orders[o].status = "confirmed"
        /\ orders[o].confirmed_at = orders[o].expires_at
        /\ orders[o].user_id \notin DOMAIN carts
        /\ \E r \in PaymentRows(o) : r.confirmations = CONFIRMATIONS_REQUIRED

\* C37: a confirmed order has its confirmed_at set and at least one Payment
\* row; every Payment row belongs to an order whose confirmed_at is set.
C37_ConfirmedHasPayment ==
    /\ \A o \in OrderIds :
           orders[o].status = "confirmed"
               => orders[o].confirmed_at # NULL /\ NumPayments(o) >= 1
    /\ \A r \in BagToSet(payments) :
           r.order_id \in OrderIds /\ orders[r.order_id].confirmed_at # NULL

\* C37 witness: an order confirmed by two Checks, with two Payment rows
C37_Witness ==
    \E o \in OrderIds :
        /\ orders[o].status = "confirmed"
        /\ orders[o].confirmed_at # NULL
        /\ NumPayments(o) = 2

\* ------------------------------------------------------------------------
\* Specification of a resent message: a user with a cart goes through the
\* dialogue and keeps using the cart buttons; the handler that creates the
\* order stays suspended at its reply until _create_order_tail runs. No
\* fault occurs and the cart is never cleared, so a suspended handler is one
\* that has committed an order.
\* ------------------------------------------------------------------------
NextResend ==
    \/ \E u \in ActiveUsers, p \in Products : _add_to_cart(u, p) /\ UNCHANGED <<limiterVars, walletVars>>
    \/ \E u \in ActiveUsers : _start_checkout(u) /\ UNCHANGED <<limiterVars, walletVars>>
    \/ \E u \in ActiveUsers : handle_message(u, TxtLong, OracleUp, "none") /\ UNCHANGED <<limiterVars, walletVars>>
    \/ \E u \in ActiveUsers : _create_order_tail(u) /\ UNCHANGED <<limiterVars, walletVars>>
    \/ Idle /\ UNCHANGED <<limiterVars, walletVars>>

SpecResend == InitStale /\ [][NextResend]_vars

\* C38: while the handler that created a user's order is suspended at its
\* reply, with the dialogue still at its last field, a further final-field
\* message of that user finds no cart (and so creates no second Order in
\* this pass through the dialogue).
C38_ResendFindsNoCart ==
    \A u \in Users :
        (/\ suspended[u].create > 0
         /\ AtLastStep(u)
         /\ StepNames \subseteq DOMAIN user_states[u]
         /\ \E o \in OrderIds : orders[o].user_id = u)
            => ~HasCartItems(u)

\* The columns of an order that are written once, at creation.
Fixed(ord) ==
    [user_id |-> ord.user_id,
     total_amount_xmr |-> ord.total_amount_xmr,
     payment_id |-> ord.payment_id,
     payment_address |-> ord.payment_address,
     expires_at |-> ord.expires_at,
     shipping_address_id |-> ord.shipping_address_id]

\* C39: no step changes an existing order's owner, total, payment id,
\* payment address, expires_at, OrderItems or ShippingAddress; a step of
\* _check_payment, verify_payment_complete or the sweep changes nothing but
\* status and confirmed_at of orders and the payments table.
C39_OrderFrozen ==
    [][/\ \A o \in OrderIds :
            /\ o \in DOMAIN orders'
            /\ Fixed(orders'[o]) = Fixed(orders[o])
            /\ ItemsOf(o)' = ItemsOf(o)
            /\ orders[o].shipping_address_id \in DOMAIN shipping_addresses'
            /\ shipping_addresses'[orders[o].shipping_address_id]
                   = shipping_addresses[orders[o].shipping_address_id]
       /\ (\/ expire_old_orders
           \/ \E o \in 1..(Len(orders) + 1) : \E obs \in ObsFor(o) : Checks(o, obs))
             => /\ DOMAIN orders' = DOMAIN orders
                /\ UNCHANGED <<users, carts, order_items, shipping_addresses,
                               price, dlgVars>>]_vars

\* C39 witness: an order that was confirmed and later expired by a Check,
\* with its item, its address and its creation-time columns in place
C39_Witness ==
    \E o \in OrderIds :
        /\ orders[o].status = "expired"
        /\ orders[o].confirmed_at # NULL
        /\ NumPayments(o) = 1
        /\ ItemsOf(o) # {}
        /\ shipping_addresses[orders[o].shipping_address_id].full_name = TxtLong
        /\ Fixed(orders[o]) = Fixed(NewOrder(o, 1, 1, cart_total(PaidCart, SeedPrice), 0))

\* ------------------------------------------------------------------------
\* Specification of the address: a user with a cart starts, cancels, leaves
\* idle and restarts the dialogue, typing one of two valid texts at every
\* step; the last step may meet an oracle failure or a fault
\* ------------------------------------------------------------------------
TxtOther == <<"1", "2", "a", "b", "c">>
DialogueTexts == {TxtLong, TxtOther}

NextAddress ==
    \/ \E u \in ActiveUsers : _start_checkout(u) /\ UNCHANGED <<limiterVars, walletVars>>
    \/ \E u \in ActiveUsers, text \in DialogueTexts :
           \E pd \in OracleInputs(u), fault \in FaultInputs(u) :
               handle_message(u, text, pd, fault) /\ UNCHANGED <<limiterVars, walletVars>>
    \/ \E u \in ActiveUsers : _create_order_tail(u) /\ UNCHANGED <<limiterVars, walletVars>>
    \/ \E u \in ActiveUsers : cancel_operation(u) /\ UNCHANGED <<limiterVars, walletVars>>
    \/ Idle /\ UNCHANGED <<limiterVars, walletVars>>

SpecAddress == InitStale /\ [][NextAddress]_vars

\* The fields of the steps before step s.
FieldsBefore(s) == {Steps[i] : i \in 1..(StepIndex(s) - 1)}

\* C40: the ShippingAddress of a created order consists of the six values
\* the user submitted in the dialogue that led to the order. A dialogue
\* begins at full_name; every step it advances stores the submitted text
\* under the field of that step and keeps the fields submitted before it in
\* this dialogue; and the order's address is made of the owner's five fields
\* stored so and the text submitted at zip_code.
C40_AddressFromDialogue ==
    [][\A u \in Users :
          /\ (u \notin _checkout_lock /\ HasCartItems(u) /\ _start_checkout(u))
                => CurrentStep(user_states', u) = "full_name"
          /\ (InCheckoutFlow(user_states, u) /\ InCheckoutFlow(user_states', u)
                /\ ~_start_checkout(u))
                => LET s == CurrentStep(user_states, u)
                   IN  /\ \A f \in FieldsBefore(s) :
                              /\ f \in DOMAIN user_states'[u]
                              /\ user_states'[u][f] = user_states[u][f]
                       /\ CurrentStep(user_states', u) # s
                              => \E text \in DialogueTexts :
                                     /\ handle_message(u, text, OracleUp, "none")
                                     /\ user_states'[u][s] = Strip(text)
          /\ (Len(orders') > Len(orders) /\ orders'[Len(orders')].user_id = u)
                => /\ AtLastStep(u)
                   /\ \E text \in DialogueTexts, fault \in Faults :
                          /\ handle_message(u, text, OracleUp, fault)
                          /\ LET a == shipping_addresses'[orders'[Len(orders')].shipping_address_id]
                                 typed == [f \in StepNames |->
                                              IF f = "zip_code" THEN Strip(text)
                                              ELSE user_states[u][f]]
                             IN  /\ a.full_name = typed["full_name"]
                                 /\ a.street_address = typed["street_address"]
                                 /\ a.apt_number = typed["apt_number"]
                                 /\ a.city = typed["city"]
                                 /\ a.state = typed["state"]
                                 /\ a.zip_code = typed["zip_code"]]_vars

\* C40 witness: an order created at the latest time, when a dialogue begun
\* at the start would be stale, whose address alternates between the two texts
C40_Witness ==
    \E o \in OrderIds :
        /\ orders[o].expires_at = MaxIdleTicks * TickStep + ORDER_LIFETIME
        /\ LET a == shipping_addresses[orders[o].shipping_address_id]
           IN  /\ a.full_name = TxtOther
               /\ a.street_address = TxtLong
               /\ a.apt_number = TxtOther
               /\ a.city = TxtLong
               /\ a.state = TxtOther
               /\ a.zip_code = TxtLong
====
